---- MODULE Spec2Model ----
(***************************************************************************)
(* Minimarket Aurelion - analytic pipeline (2. programa.py).               *)
(*                                                                         *)
(* One run of ejecutar_pipeline: cargar_datasets (schema validation, name  *)
(* enrichment, advisory referential-integrity check), limpiar_datos,       *)
(* calcular_metricas (integration + metrics), exportar_resultados, and the *)
(* except-handler; and menu_interactivo, whose option 1 runs the pipeline. *)
(* The helpers imported from aurelion.pipeline_utils                       *)
(* (validate_referential_integrity, clean_all, integrate,                  *)
(* top5_productos_por_importe, medios_pago_pct, clasificacion_abc) are not *)
(* part of the source tree; they are modelled from the specification text. *)
(***************************************************************************)
EXTENDS Integers, Sequences, FiniteSets, TLC

VARIABLES
    fastmode,    \* argument of ejecutar_pipeline
    cols,        \* columns present in each input file
    archivos,    \* rows of the four input files
    falla,       \* unanticipated failure injected in this run: [etapa, k]
    pc,          \* position inside ejecutar_pipeline
    df,          \* df_productos, df_clientes, df_ventas, df_detalle (locals)
    ri,          \* ri_ok, ri_stats of the last referential-integrity check
    metricas,    \* result of calcular_metricas
    log,         \* logger events, in order
    etapas,      \* stage marks <<stage, "inicio"|"fin"|"fallo">>, in order
    avisos,      \* optional_column_missing warnings
    errores,     \* records appended to logs/errors.log.jsonl by manejar_error
    excepcion,   \* exception in flight / raised to the caller
    exportados,  \* files written by exportar_resultados, in order
    registros,   \* records of logs/metrics.log and logs/performance.log.jsonl
    menu         \* menu_interactivo: position, stored results, last effect

vars == <<fastmode, cols, archivos, falla, pc, df, ri, metricas, log, etapas,
          avisos, errores, excepcion, exportados, registros, menu>>

----------------------------------------------------------------------------
(* Bounds of the model *)

\* at most this many columns are absent from the input files
MaxFaltantes == 2
\* at most this many sale lines in the enumerated detalle files
MaxLineas == 2
\* number of products in the metric inputs (one sale line per product)
NProd == 6

----------------------------------------------------------------------------
(* Values *)

NULL == "NULL"

\* product names in alphabetical order; a name's rank is its index
Nombres == <<"arroz", "azucar", "cafe", "leche", "pan", "te", "yerba", "zumo">>

RangoNombre(n) == IF n = NULL THEN 0 ELSE CHOOSE i \in 1..Len(Nombres) : Nombres[i] = n

SeqToSet(s) == {s[i] : i \in 1..Len(s)}

RECURSIVE SumSeq(_)
SumSeq(s) == IF s = <<>> THEN 0 ELSE Head(s) + SumSeq(Tail(s))

RECURSIVE Concat(_)
Concat(ss) == IF ss = <<>> THEN <<>> ELSE Head(ss) \o Concat(Tail(ss))

RECURSIVE KSub(_, _)
\* subsets of S with at most k elements
KSub(S, k) ==
    IF k = 0 THEN {{}}
    ELSE KSub(S, k - 1) \cup {s \cup {x} : s \in KSub(S, k - 1), x \in S}

RECURSIVE SeqsUpTo(_, _)
\* sequences over S of length at most n
SeqsUpTo(S, n) ==
    IF n = 0 THEN {<<>>}
    ELSE SeqsUpTo(S, n - 1) \cup
         {Append(s, x) : s \in {t \in SeqsUpTo(S, n - 1) : Len(t) = n - 1}, x \in S}

----------------------------------------------------------------------------
(* cargar_datasets: expected and optional columns *)

Tablas == <<"productos", "clientes", "ventas", "detalle">>

columnas_esperadas(t) ==
    CASE t = "productos" -> {"id_producto", "nombre_producto", "categoria", "precio_unitario"}
      [] t = "clientes"  -> {"id_cliente", "nombre_cliente", "email", "ciudad", "fecha_alta"}
      [] t = "ventas"    -> {"id_venta", "fecha", "id_cliente", "medio_pago", "canal"}
      [] t = "detalle"   -> {"id_venta", "id_producto", "cantidad", "precio_unitario", "importe"}

columnas_opcionales(t) == IF t = "detalle" THEN {"nombre_producto"} ELSE {}

TodasColumnas(t) == columnas_esperadas(t) \cup columnas_opcionales(t)

\* variant: only the first absent column is reported
faltantes_requeridos_primera(t, presentes) ==
    LET f == columnas_esperadas(t) \ presentes
    IN  IF f = {} THEN {} ELSE {CHOOSE col \in f : TRUE}

\* lines 167-168: required columns of table t absent from the file
faltantes_requeridos(t, presentes) ==
    {col \in columnas_esperadas(t) \ presentes : col \notin columnas_opcionales(t)}

\* variant: a table with optional columns is always warned about
faltantes_opcionales_todas(t, presentes) == columnas_opcionales(t)

\* line 172: optional columns of table t absent from the file
faltantes_opcionales(t, presentes) ==
    {col \in columnas_opcionales(t) : col \notin presentes}

SinExcepcion == [tipo |-> "ninguna", origen |-> NULL, tabla |-> NULL, faltantes |-> {}]

\* line 171: ValueError("Faltan columnas en <tabla>: <set>")
ErrorColumnas(t, f) ==
    [tipo |-> "ValueError", origen |-> "validacion", tabla |-> t, faltantes |-> f]

\* an unanticipated exception raised inside a stage
ErrorInesperado(etapa) ==
    [tipo |-> "Exception", origen |-> etapa, tabla |-> NULL, faltantes |-> {}]

RECURSIVE ValidarDesde(_, _, _)
\* lines 159-180: the validation loop from the i-th table on; av are the
\* optional-column warnings issued so far
ValidarDesde(i, c, av) ==
    IF i > Len(Tablas)
    THEN [ok |-> TRUE, tabla |-> NULL, faltantes |-> {}, avisos |-> av, n |-> i - 1]
    ELSE LET t  == Tablas[i]
             fr == faltantes_requeridos(t, c[t])
             fo == faltantes_opcionales(t, c[t])
         IN  IF fr # {}
             THEN [ok |-> FALSE, tabla |-> t, faltantes |-> fr, avisos |-> av, n |-> i]
             ELSE ValidarDesde(i + 1, c,
                               IF fo # {}
                               THEN Append(av, [tabla |-> t, faltantes |-> fo])
                               ELSE av)

\* lines 607-625: manejar_error appends one record to logs/errors.log.jsonl
manejar_error(errs, etapa, error) == Append(errs, [etapa |-> etapa, error |-> error])

RECURSIVE DropDuplicates(_)
\* pandas drop_duplicates: the first occurrence of every row, in order
DropDuplicates(s) ==
    IF s = <<>> THEN <<>>
    ELSE LET r == DropDuplicates(SubSeq(s, 1, Len(s) - 1))
             x == s[Len(s)]
         IN  IF x \in SeqToSet(r) THEN r ELSE Append(r, x)

\* line 183: df_productos[['id_producto', 'nombre_producto']].drop_duplicates()
nombre_map(productos) ==
    DropDuplicates([i \in 1..Len(productos) |->
                      [id_producto     |-> productos[i].id_producto,
                       nombre_producto |-> productos[i].nombre_producto]])

\* line 184: df_detalle.merge(nombre_map, on='id_producto', how='left'):
\* one output row per matching row of the map, one row with a null name when
\* nothing matches; the order of the left table is kept
MergeNombre(detalle, mapa) ==
    Concat([i \in 1..Len(detalle) |->
              LET m == SelectSeq(mapa, LAMBDA r : r.id_producto = detalle[i].id_producto)
              IN  IF m = <<>>
                  THEN <<[detalle[i] EXCEPT !.nombre_producto = NULL]>>
                  ELSE [j \in 1..Len(m) |->
                          [detalle[i] EXCEPT !.nombre_producto = m[j].nombre_producto]]])

\* lines 182-188: the name is merged in only when the detalle file lacks it
EnriquecerDetalle(detalle, cols_detalle, productos, cols_productos) ==
    IF /\ "nombre_producto" \notin cols_detalle
       /\ "id_producto" \in cols_detalle
       /\ "nombre_producto" \in cols_productos
    THEN MergeNombre(detalle, nombre_map(productos))
    ELSE detalle

Ids(tabla, campo) == {tabla[i][campo] : i \in 1..Len(tabla)}

\* validate_referential_integrity: orphan counts per foreign-key relation
\* and the flag "fully consistent"
validate_referential_integrity(productos, clientes, ventas, detalle) ==
    LET stats ==
          [detalle_sin_venta    |->
               Len(SelectSeq(detalle, LAMBDA r : r.id_venta \notin Ids(ventas, "id_venta"))),
           detalle_sin_producto |->
               Len(SelectSeq(detalle,
                             LAMBDA r : r.id_producto \notin Ids(productos, "id_producto"))),
           ventas_sin_cliente   |->
               Len(SelectSeq(ventas,
                             LAMBDA r : r.id_cliente \notin Ids(clientes, "id_cliente")))]
    IN  [ok    |-> /\ stats.detalle_sin_venta = 0
                   /\ stats.detalle_sin_producto = 0
                   /\ stats.ventas_sin_cliente = 0,
         stats |-> stats]

----------------------------------------------------------------------------
(* clean_all: per-table cleaning *)

RECURSIVE DedupePor(_, _)
\* the first row of every identifier, in the original order
DedupePor(tabla, campo) ==
    IF tabla = <<>> THEN <<>>
    ELSE LET r == DedupePor(SubSeq(tabla, 1, Len(tabla) - 1), campo)
             x == tabla[Len(tabla)]
         IN  IF x[campo] \in Ids(r, campo) THEN r ELSE Append(r, x)

\* duplicates of the identifier collapse to the first row; rows with a
\* negative price or a non-positive quantity are dropped
clean_all(productos, clientes, ventas, detalle) ==
    [productos |-> SelectSeq(DedupePor(productos, "id_producto"),
                             LAMBDA r : r.precio_unitario >= 0),
     clientes  |-> DedupePor(clientes, "id_cliente"),
     ventas    |-> DedupePor(ventas, "id_venta"),
     detalle   |-> SelectSeq(detalle, LAMBDA r : r.cantidad > 0)]

----------------------------------------------------------------------------
(* integrate: the fact table *)

\* detalle joined with ventas (inner, on id_venta); the product name of the
\* line is kept when detalle carries the column and is otherwise filled from
\* productos (left join: a null name when no product matches)
integrate(detalle, tiene_nombre, ventas, productos) ==
    LET conNombre == IF tiene_nombre THEN detalle
                     ELSE MergeNombre(detalle, nombre_map(productos))
    IN  Concat([i \in 1..Len(conNombre) |->
                  LET d == conNombre[i]
                      v == SelectSeq(ventas, LAMBDA r : r.id_venta = d.id_venta)
                  IN  [j \in 1..Len(v) |->
                         [id_venta        |-> d.id_venta,
                          id_producto     |-> d.id_producto,
                          nombre_producto |-> d.nombre_producto,
                          cantidad        |-> d.cantidad,
                          importe         |-> d.importe,
                          id_cliente      |-> v[j].id_cliente,
                          medio_pago      |-> v[j].medio_pago]]])

----------------------------------------------------------------------------
(* Metrics *)

Importes(filas) == [i \in 1..Len(filas) |-> filas[i].importe]

\* group keys are tuples of key columns: <<id_producto, nombre_producto>>,
\* <<id_cliente>>
ClaveProducto(f) == <<f.id_producto, f.nombre_producto>>

ClaveCliente(f) == <<f.id_cliente>>

\* the projection of the rows on the key and the amount
PorProducto(filas) ==
    [i \in 1..Len(filas) |-> [clave |-> ClaveProducto(filas[i]), importe |-> filas[i].importe]]

PorCliente(filas) ==
    [i \in 1..Len(filas) |-> [clave |-> ClaveCliente(filas[i]), importe |-> filas[i].importe]]

\* a key with a null component (only the product name can be null)
ClaveNula(k) == Len(k) = 2 /\ k[2] = NULL

ClaveMenor(a, b) ==
    \/ a[1] < b[1]
    \/ a[1] = b[1] /\ Len(a) = 2 /\ RangoNombre(a[2]) < RangoNombre(b[2])

\* variant: the rows of each key are counted instead of summed
SumaPorClave_cuenta(pares) ==
    {[clave   |-> k,
      importe |-> Len(SelectSeq(pares, LAMBDA f : f.clave = k))] :
        k \in {pares[i].clave : i \in 1..Len(pares)}}

\* sum of importe per key
SumaPorClave(pares) ==
    {[clave   |-> k,
      importe |-> SumSeq(Importes(SelectSeq(pares, LAMBDA f : f.clave = k)))] :
        k \in {pares[i].clave : i \in 1..Len(pares)}}

\* the groups of S as a sequence in ascending key order
OrdenarPorClave(S) ==
    [i \in 1..Cardinality(S) |->
        CHOOSE x \in S : Cardinality({y \in S : ClaveMenor(y.clave, x.clave)}) = i - 1]

\* pandas groupby(keys)['importe'].sum(): rows with a null key are left out
\* (dropna), the groups come sorted by key
GroupBySum(pares) ==
    OrdenarPorClave(SumaPorClave(SelectSeq(pares, LAMBDA f : ~ClaveNula(f.clave))))

\* line 251: df_completo.groupby(["id_producto", "nombre_producto"])['importe'].sum()
productos_importe(df_completo) == GroupBySum(PorProducto(df_completo))

\* line 252: df_completo.groupby('id_cliente')['importe'].sum()
clientes_importe(df_completo) == GroupBySum(PorCliente(df_completo))

\* cumulative-share thresholds of the ABC classes, in percent
UmbralA == 80
UmbralB == 95

\* length of the product ranking
TopN == 5

\* class of an entity whose cumulative revenue, itself included, is acum out
\* of total: the share acum/total is compared with the thresholds
EtiquetaABC(acum, total) ==
    IF acum * 100 <= UmbralA * total THEN "A"
    ELSE IF acum * 100 <= UmbralB * total THEN "B"
    ELSE "C"

\* revenue descending; entities with equal revenue stay in key order
MayorImporte(a, b) ==
    \/ a.importe > b.importe
    \/ a.importe = b.importe /\ ClaveMenor(a.clave, b.clave)

\* the entities of S as a sequence, revenue descending
OrdenarPorImporte(S) ==
    [i \in 1..Cardinality(S) |->
        CHOOSE x \in S : Cardinality({y \in S : MayorImporte(y, x)}) = i - 1]

\* clasificacion_abc: entities sorted by revenue descending, labelled by
\* cumulative revenue share
clasificacion_abc(serie) ==
    LET ord   == OrdenarPorImporte(SeqToSet(serie))
        total == SumSeq(Importes(ord))
    IN  [i \in 1..Len(ord) |->
           LET acum == SumSeq(Importes(SubSeq(ord, 1, i)))
           IN  [clave         |-> ord[i].clave,
                importe       |-> ord[i].importe,
                acumulado     |-> acum,
                total         |-> total,
                clasificacion |-> EtiquetaABC(acum, total)]]

\* per-product totals of the ranking: grouped by product identifier and name
ImportePorProducto(df_completo) == SumaPorClave(PorProducto(df_completo))

\* variant: ties are broken by product identifier descending
top5_desempate_inverso(df_completo) ==
    LET S   == ImportePorProducto(df_completo)
        ord == [i \in 1..Cardinality(S) |->
                   CHOOSE x \in S :
                       Cardinality({y \in S :
                           \/ y.importe > x.importe
                           \/ y.importe = x.importe /\ ClaveMenor(x.clave, y.clave)})
                         = i - 1]
    IN  SubSeq(ord, 1, IF Len(ord) < TopN THEN Len(ord) ELSE TopN)

\* top5_productos_por_importe: summed amount descending, ties by product
\* identifier ascending, the first TopN
top5_productos_por_importe(df_completo) ==
    LET ord == OrdenarPorImporte(ImportePorProducto(df_completo))
    IN  SubSeq(ord, 1, IF Len(ord) < TopN THEN Len(ord) ELSE TopN)

Medios == <<"efectivo", "tarjeta", "transferencia">>

RangoMedio(m) == CHOOSE i \in 1..Len(Medios) : Medios[i] = m

\* variant: the shares are computed whatever the grand total
medios_pago_pct_sin_guardia(df_completo) ==
    LET total  == SumSeq(Importes(df_completo))
        grupos == {[medio |-> m,
                    num   |-> 100 * SumSeq(Importes(SelectSeq(df_completo,
                                                LAMBDA f : f.medio_pago = m))),
                    den   |-> total] :
                      m \in {df_completo[i].medio_pago : i \in 1..Len(df_completo)}}
    IN  [i \in 1..Cardinality(grupos) |->
            CHOOSE x \in grupos :
                Cardinality({y \in grupos :
                                RangoMedio(y.medio) < RangoMedio(x.medio)}) = i - 1]

\* medios_pago_pct: each payment method's share of the grand total, in
\* percent, kept as the exact fraction num/den; empty when the total is zero
medios_pago_pct(df_completo) ==
    LET total  == SumSeq(Importes(df_completo))
        grupos == {[medio |-> m,
                    num   |-> 100 * SumSeq(Importes(SelectSeq(df_completo,
                                                LAMBDA f : f.medio_pago = m))),
                    den   |-> total] :
                      m \in {df_completo[i].medio_pago : i \in 1..Len(df_completo)}}
    IN  IF total = 0 THEN <<>>
        ELSE [i \in 1..Cardinality(grupos) |->
                CHOOSE x \in grupos :
                    Cardinality({y \in grupos :
                                    RangoMedio(y.medio) < RangoMedio(x.medio)}) = i - 1]

SinMetricas ==
    [calculada |-> FALSE, top5_productos |-> <<>>, medios_pago |-> <<>>,
     abc_productos |-> <<>>, abc_clientes |-> <<>>, df_completo |-> <<>>]

\* lines 244-264: calcular_metricas
calcular_metricas(ventas, detalle, tiene_nombre, productos) ==
    LET df_completo == integrate(detalle, tiene_nombre, ventas, productos)
    IN  [calculada      |-> TRUE,
         top5_productos |-> top5_productos_por_importe(df_completo),
         medios_pago    |-> medios_pago_pct(df_completo),
         abc_productos  |-> clasificacion_abc(productos_importe(df_completo)),
         abc_clientes   |-> clasificacion_abc(clientes_importe(df_completo)),
         df_completo    |-> df_completo]

----------------------------------------------------------------------------
(* Inputs *)

P(id, nombre, precio) ==
    [id_producto |-> id, nombre_producto |-> nombre, precio_unitario |-> precio]

C(id) == [id_cliente |-> id]

V(id, cliente, medio) == [id_venta |-> id, id_cliente |-> cliente, medio_pago |-> medio]

L(venta, producto, cantidad, importe) ==
    [id_venta |-> venta, id_producto |-> producto, cantidad |-> cantidad,
     importe |-> importe, nombre_producto |-> Nombres[producto]]

ColumnasCompletas == [t \in SeqToSet(Tablas) |-> TodasColumnas(t)]

Pares == UNION {{<<t, c>> : c \in TodasColumnas(t)} : t \in SeqToSet(Tablas)}

ColumnasSin(m) == [t \in SeqToSet(Tablas) |-> {c \in TodasColumnas(t) : <<t, c>> \notin m}]

\* a detalle file without the nombre_producto column carries no names
Archivos(datos, c) ==
    [datos EXCEPT !.detalle =
        IF "nombre_producto" \in c["detalle"] THEN @
        ELSE [i \in 1..Len(@) |-> [@[i] EXCEPT !.nombre_producto = NULL]]]

Datos0 ==
    [productos |-> <<P(1, "arroz", 2), P(2, "azucar", 1)>>,
     clientes  |-> <<C(1), C(2)>>,
     ventas    |-> <<V(1, 1, "efectivo"), V(2, 2, "tarjeta")>>,
     detalle   |-> <<L(1, 1, 1, 16), L(2, 2, 1, 4), L(1, 2, 0, 3)>>]

\* the input files at a later run of a menu session
Datos1 ==
    [productos |-> <<P(1, "arroz", 2), P(2, "azucar", 1)>>,
     clientes  |-> <<C(1), C(2)>>,
     ventas    |-> <<V(1, 1, "efectivo"), V(2, 1, "tarjeta")>>,
     detalle   |-> <<L(1, 1, 2, 5), L(2, 2, 3, 7)>>]

SinFalla == [etapa |-> "ninguna", k |-> 0]

\* the outputs of exportar_resultados, in the order they are written
Salidas == <<"out_top5.csv", "out_mediopago.csv", "out_abc_productos.csv",
             "out_abc_clientes.csv", "resumen_mensual.md">>

\* the stage that raises; for the integrity check k is the call that raises,
\* for the export k is the output whose writing raises
Fallas ==
    {[etapa |-> e, k |-> 0] : e \in {"lectura", "limpieza", "metricas"}}
        \cup {[etapa |-> "integridad", k |-> k] : k \in {1, 2}}
        \cup {[etapa |-> "export", k |-> k] : k \in 1..Len(Salidas)}

\* product tables: clean; one identifier under two names; an exact duplicate
\* and a product with a negative price
ProductosB ==
    {<<P(1, "arroz", 2), P(2, "azucar", 1)>>,
     <<P(1, "arroz", 2), P(1, "cafe", 2)>>,
     <<P(1, "arroz", 2), P(1, "arroz", 2), P(2, "azucar", -1)>>}

\* sales tables: clean; a duplicated identifier; a customer that does not exist
VentasB ==
    {<<V(1, 1, "efectivo")>>,
     <<V(1, 1, "efectivo"), V(1, 2, "tarjeta")>>,
     <<V(1, 7, "efectivo")>>}

\* sale lines; sale 9 and product 8 exist in no table
LineasB == {L(v, p, 1, m) : v \in {1, 9}, p \in {1, 2, 8}, m \in {0, 2}}

\* one sale line per product p with amount f[p] (none when f[p] = 0)
LineasD(f) ==
    Concat([p \in 1..NProd |->
              IF f[p] = 0 THEN <<>> ELSE <<L((p % 2) + 1, p, 1, f[p])>>])

DfVacio ==
    [productos |-> <<>>, clientes |-> <<>>, ventas |-> <<>>, detalle |-> <<>>,
     tiene_nombre |-> FALSE]

SinIntegridad ==
    [ok |-> TRUE, n |-> 0,
     stats |-> [detalle_sin_venta |-> 0, detalle_sin_producto |-> 0,
                ventas_sin_cliente |-> 0]]

\* lines 556-558: None, or a stored value
Ninguno == [hay |-> FALSE, valor |-> <<>>]

Algun(v) == [hay |-> TRUE, valor |-> v]

\* the program was started with --run: there is no menu session
MenuInactivo ==
    [pos |-> "inactivo", metricas |-> Ninguno, df_ventas |-> Ninguno,
     df_detalle |-> Ninguno, opcion |-> "", efecto |-> "ninguno",
     reporte |-> Ninguno, exito |-> FALSE]

\* lines 556-560: menu_interactivo starts with nothing stored and shows the
\* menu; exito records that an option 1 of the session completed successfully
MenuInicial == [MenuInactivo EXCEPT !.pos = "menu"]

\* what the runs started from the menu meet: no failure, a failing cleaning,
\* a failing write of the third output
FallasMenu == {SinFalla, [etapa |-> "limpieza", k |-> 0], [etapa |-> "export", k |-> 3]}

DatosMenu == {Datos0, Datos1}

InitComun ==
    /\ pc = "inicio"
    /\ df = DfVacio
    /\ ri = SinIntegridad
    /\ metricas = SinMetricas
    /\ log = <<>>
    /\ etapas = <<>>
    /\ avisos = <<>>
    /\ errores = <<>>
    /\ excepcion = SinExcepcion
    /\ exportados = <<>>
    /\ registros = <<>>

\* files with columns missing
InitColumnas ==
    /\ menu = MenuInactivo
    /\ fastmode \in BOOLEAN
    /\ falla = SinFalla
    /\ \E m \in KSub(Pares, MaxFaltantes) :
          /\ cols = ColumnasSin(m)
          /\ archivos = Archivos(Datos0, ColumnasSin(m))

\* files with orphans, duplicates and invalid rows
InitDatos ==
    /\ menu = MenuInactivo
    /\ fastmode = TRUE
    /\ falla = SinFalla
    /\ \E c \in {ColumnasCompletas, ColumnasSin({<<"detalle", "nombre_producto">>})},
          ps \in ProductosB, vs \in VentasB, ds \in SeqsUpTo(LineasB, MaxLineas) :
          /\ cols = c
          /\ archivos = Archivos([productos |-> ps, clientes |-> <<C(1), C(2)>>,
                                   ventas |-> vs, detalle |-> ds], c)

\* a stage that raises
InitFallas ==
    /\ menu = MenuInactivo
    /\ fastmode \in BOOLEAN
    /\ falla \in Fallas
    /\ cols = ColumnasCompletas
    /\ archivos = Datos0

\* consistent files with up to NProd products
InitProductos ==
    /\ menu = MenuInactivo
    /\ fastmode = TRUE
    /\ falla = SinFalla
    /\ cols = ColumnasCompletas
    /\ \E f \in [1..NProd -> {0, 1, 16}] :
          archivos = [productos |-> [p \in 1..NProd |-> P(p, Nombres[p], 1)],
                      clientes  |-> <<C(1), C(2)>>,
                      ventas    |-> <<V(1, 1, "efectivo"), V(2, 2, "tarjeta")>>,
                      detalle   |-> LineasD(f)]

\* lines 697-698 and 564: no --run argument; the menu runs the pipeline with
\* the default fastmode = False
InitMenu ==
    /\ menu = MenuInicial
    /\ fastmode = FALSE
    /\ falla = SinFalla
    /\ cols = ColumnasCompletas
    /\ archivos = Datos0

Init ==
    InitComun /\ (InitColumnas \/ InitDatos \/ InitFallas \/ InitProductos \/ InitMenu)

----------------------------------------------------------------------------
(* ejecutar_pipeline *)

Marca(etapa, m) == <<etapa, m>>

\* variant: an inconsistent result aborts the load
TrasCarga_aborta(ok) == IF ok THEN "cargado" ELSE "excepcion"

\* lines 209-214: cargar_datasets returns the four tables whatever the
\* integrity check said
TrasCarga(ok) == "cargado"

\* variant: the metrics are computed on the tables as loaded
TrasIntegridad_salta(ok) == "limpio"

\* lines 364-366: ri_ok is kept for the metrics log and limpiar_datos is
\* called whatever its value
TrasIntegridad(ok) == "verificado"

\* lines 182-184: df_detalle has the nombre_producto column after loading
TieneNombre(cols_detalle, cols_productos) ==
    \/ "nombre_producto" \in cols_detalle
    \/ "id_producto" \in cols_detalle /\ "nombre_producto" \in cols_productos

\* lines 210-212: events logged after the check
EventosIntegridad(ok) == IF ok THEN <<"ri_check">> ELSE <<"ri_check", "ri_warning">>

\* lines 173-180: one warning event per table with optional columns absent
EventosOpcionales(av) == [i \in 1..Len(av) |-> "optional_column_missing"]

\* lines 353-361 and 129-217: the pipeline starts and calls cargar_datasets;
\* from the menu it starts only through option 1
CargarDatasets ==
    /\ pc = "inicio"
    /\ menu.pos \in {"inactivo", "pipeline"}
    /\ LET v == ValidarDesde(1, cols, <<>>)
           inicio == <<"pipeline_start", "load_start">>
       IN  \/ \* lines 135-146, 215-217: reading a file raises
              /\ falla.etapa = "lectura"
              /\ excepcion' = ErrorInesperado("lectura")
              /\ errores' = manejar_error(errores, "ingesta", ErrorInesperado("lectura"))
              /\ log' = log \o inicio \o <<"error">>
              /\ etapas' = etapas \o <<Marca("carga", "inicio"), Marca("carga", "fallo")>>
              /\ pc' = "excepcion"
              /\ UNCHANGED <<df, ri, avisos>>
           \/ \* lines 169-171, 215-217: a required column is absent
              /\ falla.etapa # "lectura"
              /\ ~v.ok
              /\ LET e == ErrorColumnas(v.tabla, v.faltantes)
                 IN  /\ excepcion' = e
                     /\ errores' = manejar_error(manejar_error(errores, "ingesta", e),
                                                  "ingesta", e)
              /\ avisos' = avisos \o v.avisos
              /\ log' = log \o inicio \o EventosOpcionales(v.avisos) \o <<"error", "error">>
              /\ etapas' = etapas \o <<Marca("carga", "inicio"), Marca("carga", "fallo")>>
              /\ pc' = "excepcion"
              /\ UNCHANGED <<df, ri>>
           \/ \* lines 182-209, 215-217: the integrity check of the load raises
              /\ falla = [etapa |-> "integridad", k |-> 1]
              /\ v.ok
              /\ excepcion' = ErrorInesperado("integridad")
              /\ errores' = manejar_error(errores, "ingesta", ErrorInesperado("integridad"))
              /\ avisos' = avisos \o v.avisos
              /\ log' = log \o inicio \o EventosOpcionales(v.avisos)
                            \o <<"load_ok", "error">>
              /\ etapas' = etapas \o
                    <<Marca("carga", "inicio"), Marca("carga", "fin"),
                      Marca("integridad", "inicio"), Marca("integridad", "fallo")>>
              /\ pc' = "excepcion"
              /\ UNCHANGED <<df, ri>>
           \/ \* lines 182-214: enrichment, load_ok, integrity check, return
              /\ falla.etapa # "lectura"
              /\ falla # [etapa |-> "integridad", k |-> 1]
              /\ v.ok
              /\ LET det == EnriquecerDetalle(archivos.detalle, cols["detalle"],
                                              archivos.productos, cols["productos"])
                     r   == validate_referential_integrity(archivos.productos,
                                archivos.clientes, archivos.ventas, det)
                 IN  /\ ri' = [ok |-> r.ok, stats |-> r.stats, n |-> ri.n + 1]
                     /\ avisos' = avisos \o v.avisos
                     /\ df' = [productos |-> archivos.productos,
                               clientes  |-> archivos.clientes,
                               ventas    |-> archivos.ventas,
                               detalle   |-> det,
                               tiene_nombre |-> TieneNombre(cols["detalle"],
                                                            cols["productos"])]
                     /\ log' = log \o inicio \o EventosOpcionales(v.avisos)
                                   \o <<"load_ok">> \o EventosIntegridad(r.ok)
                     /\ etapas' = etapas \o
                           <<Marca("carga", "inicio"), Marca("carga", "fin"),
                             Marca("integridad", "inicio"), Marca("integridad", "fin")>>
                     /\ pc' = TrasCarga(r.ok)
                     /\ UNCHANGED <<errores, excepcion>>
    /\ UNCHANGED <<fastmode, cols, archivos, falla, menu, registros, metricas, exportados>>

\* line 364: the integrity check of ejecutar_pipeline
ValidarIntegridad ==
    /\ pc = "cargado"
    /\ \/ /\ falla # [etapa |-> "integridad", k |-> 2]
          /\ LET r == validate_referential_integrity(df.productos, df.clientes,
                                                     df.ventas, df.detalle)
             IN  /\ ri' = [ok |-> r.ok, stats |-> r.stats, n |-> ri.n + 1]
                 /\ pc' = TrasIntegridad(r.ok)
          /\ etapas' = etapas \o
                <<Marca("integridad", "inicio"), Marca("integridad", "fin")>>
          /\ UNCHANGED excepcion
       \/ /\ falla = [etapa |-> "integridad", k |-> 2]
          /\ excepcion' = ErrorInesperado("integridad")
          /\ etapas' = etapas \o
                <<Marca("integridad", "inicio"), Marca("integridad", "fallo")>>
          /\ pc' = "excepcion"
          /\ UNCHANGED ri
    /\ UNCHANGED <<fastmode, cols, archivos, falla, menu, registros, df, metricas, log,
                   avisos, errores, exportados>>

\* lines 365-368 and 224-239: limpiar_datos
LimpiarDatos ==
    /\ pc = "verificado"
    /\ \/ /\ falla.etapa # "limpieza"
          /\ LET r == clean_all(df.productos, df.clientes, df.ventas, df.detalle)
             IN  df' = [productos |-> r.productos, clientes |-> r.clientes,
                        ventas |-> r.ventas, detalle |-> r.detalle,
                        tiene_nombre |-> df.tiene_nombre]
          /\ log' = log \o <<"limpieza_inicio", "limpieza_ok">>
          /\ etapas' = etapas \o <<Marca("limpieza", "inicio"), Marca("limpieza", "fin")>>
          /\ pc' = "limpio"
          /\ UNCHANGED excepcion
       \/ /\ falla.etapa = "limpieza"
          /\ excepcion' = ErrorInesperado("limpieza")
          /\ log' = log \o <<"limpieza_inicio">>
          /\ etapas' = etapas \o <<Marca("limpieza", "inicio"), Marca("limpieza", "fallo")>>
          /\ pc' = "excepcion"
          /\ UNCHANGED df
    /\ UNCHANGED <<fastmode, cols, archivos, falla, menu, registros, ri, metricas, avisos,
                   errores, exportados>>

\* lines 369-372 and 244-264: calcular_metricas (integration, then metrics)
CalcularMetricas ==
    /\ pc = "limpio"
    /\ \/ /\ falla.etapa # "metricas"
          /\ metricas' = calcular_metricas(df.ventas, df.detalle, df.tiene_nombre,
                                            df.productos)
          /\ log' = log \o <<"metricas_inicio", "metricas_ok">>
          /\ etapas' = etapas \o
                <<Marca("integracion", "inicio"), Marca("integracion", "fin"),
                  Marca("metricas", "inicio"), Marca("metricas", "fin")>>
          /\ pc' = "medido"
          /\ UNCHANGED excepcion
       \/ /\ falla.etapa = "metricas"
          /\ excepcion' = ErrorInesperado("metricas")
          /\ log' = log \o <<"metricas_inicio">>
          /\ etapas' = etapas \o
                <<Marca("integracion", "inicio"), Marca("integracion", "fin"),
                  Marca("metricas", "inicio"), Marca("metricas", "fallo")>>
          /\ pc' = "excepcion"
          /\ UNCHANGED metricas
    /\ UNCHANGED <<fastmode, cols, archivos, falla, menu, registros, df, ri, avisos,
                   errores, exportados>>

\* variant: the export is called in every mode
DebeExportar_siempre(fm) == TRUE

\* line 373: if not fastmode
DebeExportar(fm) == ~fm

\* variant: a failing write removes the outputs written before it
EscritasAntesDe_rollback(k) == <<>>

\* lines 303-307, 311-313: the outputs in place when the writing of the k-th
\* raises: the handler records the error and re-raises, it deletes nothing
EscritasAntesDe(k) == SubSeq(Salidas, 1, k - 1)

\* lines 373-376 and 295-313: exportar_resultados writes the outputs in
\* order; a failing write leaves the earlier outputs in place
ExportarResultados ==
    /\ pc = "medido"
    /\ DebeExportar(fastmode)
    /\ \/ /\ falla.etapa # "export"
          /\ exportados' = exportados \o Salidas
          /\ log' = log \o <<"export_inicio", "export_ok">>
          /\ etapas' = etapas \o <<Marca("export", "inicio"), Marca("export", "fin")>>
          /\ pc' = "exportado"
          /\ UNCHANGED <<excepcion, errores>>
       \/ /\ falla.etapa = "export"
          /\ exportados' = exportados \o EscritasAntesDe(falla.k)
          /\ excepcion' = ErrorInesperado("export")
          /\ errores' = manejar_error(errores, "exportación", ErrorInesperado("export"))
          /\ log' = log \o <<"export_inicio", "error">>
          /\ etapas' = etapas \o <<Marca("export", "inicio"), Marca("export", "fallo")>>
          /\ pc' = "excepcion"
    /\ UNCHANGED <<fastmode, cols, archivos, falla, menu, registros, df, ri, metricas,
                   avisos>>

\* lines 393-402 and 414-434: one record of logs/metrics.log, then one of
\* logs/performance.log.jsonl
Registros(status) ==
    <<[log |-> "metrics", status |-> status], [log |-> "performance", status |-> status]>>

\* lines 377-381: the summary records are written, the run is logged as
\* successful and the results are returned
Finalizar ==
    /\ \/ pc = "exportado"
       \/ pc = "medido" /\ ~DebeExportar(fastmode)
    /\ registros' = registros \o Registros("success")
    /\ log' = log \o <<"pipeline_success">>
    /\ pc' = "fin"
    /\ UNCHANGED <<fastmode, cols, archivos, falla, menu, df, ri, metricas, etapas,
                   avisos, errores, excepcion, exportados>>

\* variant: an error raised while the failure is logged replaces the error
\* of the stage
Relanzada_reemplaza(original, escritos) ==
    IF escritos < Len(Registros("failed")) THEN ErrorInesperado("registro") ELSE original

\* lines 384-389: whatever registrar_metricas or registrar_performance raises
\* is discarded ("except Exception: pass") and the bare raise re-raises the
\* error that entered the handler; escritos is the number of records written
Relanzada(original, escritos) == original

\* lines 382-389: the except-handler records the error, logs the failed run
\* (registrar_metricas or registrar_performance may raise) and re-raises
ExceptPipeline ==
    /\ pc = "excepcion"
    /\ errores' = manejar_error(errores, "pipeline", excepcion)
    /\ log' = log \o <<"error">>
    /\ \E escritos \in 0..Len(Registros("failed")) :
          /\ registros' = registros \o SubSeq(Registros("failed"), 1, escritos)
          /\ excepcion' = Relanzada(excepcion, escritos)
    /\ pc' = "error"
    /\ UNCHANGED <<fastmode, cols, archivos, falla, menu, df, ri, metricas, etapas,
                   avisos, exportados>>

----------------------------------------------------------------------------
(* menu_interactivo *)

EnMenu == menu.pos = "menu"

\* lines 562-564: option 1 calls ejecutar_pipeline(config); the files and
\* the failure the run meets are those of the moment
MenuEjecutar ==
    /\ EnMenu
    /\ menu' = [menu EXCEPT !.pos = "pipeline", !.opcion = "1", !.efecto = "ninguno"]
    /\ \E d \in DatosMenu, f \in FallasMenu :
          /\ archivos' = d
          /\ falla' = f
    /\ pc' = "inicio"
    /\ df' = DfVacio
    /\ ri' = SinIntegridad
    /\ metricas' = SinMetricas
    /\ log' = <<>>
    /\ etapas' = <<>>
    /\ avisos' = <<>>
    /\ errores' = <<>>
    /\ excepcion' = SinExcepcion
    /\ exportados' = <<>>
    /\ registros' = <<>>
    /\ UNCHANGED <<fastmode, cols>>

\* variant: whatever the failed run computed is stored
TrasFallo_guarda(m, met, ventas, detalle) ==
    [m EXCEPT !.pos = "menu", !.efecto = "corrida_error",
              !.metricas = IF met.calculada THEN Algun(met) ELSE @,
              !.df_ventas = Algun(ventas), !.df_detalle = Algun(detalle)]

\* lines 567-568: the error is printed; the assignment of line 565 was not
\* reached, and the loop goes on
TrasFallo(m, met, ventas, detalle) ==
    [m EXCEPT !.pos = "menu", !.efecto = "corrida_error"]

\* lines 565-566: the results of the run are stored
TrasExito(m, met, ventas, detalle) ==
    [m EXCEPT !.pos = "menu", !.efecto = "corrida_ok", !.exito = TRUE,
              !.metricas = Algun(met), !.df_ventas = Algun(ventas),
              !.df_detalle = Algun(detalle)]

\* lines 564-568: ejecutar_pipeline has returned or raised
MenuRetorno ==
    /\ menu.pos = "pipeline"
    /\ \/ /\ pc = "fin"
          /\ menu' = TrasExito(menu, metricas, df.ventas, df.detalle)
       \/ /\ pc = "error"
          /\ menu' = TrasFallo(menu, metricas, df.ventas, df.detalle)
    /\ UNCHANGED <<fastmode, cols, archivos, falla, pc, df, ri, metricas, log, etapas,
                   avisos, errores, excepcion, exportados, registros>>

\* variant: the metrics are shown whatever is stored
EfectoMetricas_sin_guardia(m) == "muestra_metricas"

\* lines 570-573: option 2
EfectoMetricas(m) == IF ~m.metricas.hay THEN "aviso" ELSE "muestra_metricas"

\* lines 575-580: option 3
EfectoRegistros(m) ==
    IF ~m.df_ventas.hay \/ ~m.df_detalle.hay THEN "aviso" ELSE "muestra_registros"

\* lines 569-573: option 2 shows the stored metrics
MenuMetricas ==
    /\ EnMenu
    /\ menu' = [menu EXCEPT !.opcion = "2", !.efecto = EfectoMetricas(menu)]
    /\ UNCHANGED <<fastmode, cols, archivos, falla, pc, df, ri, metricas, log, etapas,
                   avisos, errores, excepcion, exportados, registros>>

\* lines 574-580: option 3 shows the last sales
MenuRegistros ==
    /\ EnMenu
    /\ menu' = [menu EXCEPT !.opcion = "3", !.efecto = EfectoRegistros(menu)]
    /\ UNCHANGED <<fastmode, cols, archivos, falla, pc, df, ri, metricas, log, etapas,
                   avisos, errores, excepcion, exportados, registros>>

\* lines 581-588: option 4 prints the last lines of the performance log
MenuLogs ==
    /\ EnMenu
    /\ menu' = [menu EXCEPT !.opcion = "4", !.efecto = "muestra_logs"]
    /\ UNCHANGED <<fastmode, cols, archivos, falla, pc, df, ri, metricas, log, etapas,
                   avisos, errores, excepcion, exportados, registros>>

\* lines 589-597: option 5 writes docs/resumen_mensual.md from the stored
\* metrics; a failure of the writing is printed
MenuReporte ==
    /\ EnMenu
    /\ \/ /\ ~menu.metricas.hay
          /\ menu' = [menu EXCEPT !.opcion = "5", !.efecto = "aviso"]
       \/ /\ menu.metricas.hay
          /\ menu' = [menu EXCEPT !.opcion = "5", !.efecto = "reporte_escrito",
                                  !.reporte = menu.metricas]
       \/ /\ menu.metricas.hay
          /\ menu' = [menu EXCEPT !.opcion = "5", !.efecto = "reporte_error"]
    /\ UNCHANGED <<fastmode, cols, archivos, falla, pc, df, ri, metricas, log, etapas,
                   avisos, errores, excepcion, exportados, registros>>

\* lines 601-602: any other input
MenuInvalida ==
    /\ EnMenu
    /\ menu' = [menu EXCEPT !.opcion = "otra", !.efecto = "invalida"]
    /\ UNCHANGED <<fastmode, cols, archivos, falla, pc, df, ri, metricas, log, etapas,
                   avisos, errores, excepcion, exportados, registros>>

\* lines 598-600: option 0 leaves the loop
MenuSalir ==
    /\ EnMenu
    /\ menu' = [menu EXCEPT !.pos = "salida", !.opcion = "0", !.efecto = "salir"]
    /\ UNCHANGED <<fastmode, cols, archivos, falla, pc, df, ri, metricas, log, etapas,
                   avisos, errores, excepcion, exportados, registros>>

Next ==
    \/ CargarDatasets
    \/ ValidarIntegridad
    \/ LimpiarDatos
    \/ CalcularMetricas
    \/ ExportarResultados
    \/ Finalizar
    \/ ExceptPipeline
    \/ MenuEjecutar
    \/ MenuRetorno
    \/ MenuMetricas
    \/ MenuRegistros
    \/ MenuLogs
    \/ MenuReporte
    \/ MenuInvalida
    \/ MenuSalir

Spec == Init /\ [][Next]_vars

----------------------------------------------------------------------------
(* Properties *)

\* required columns of table t that the input file lacks
AusentesRequeridas(t) == {col \in columnas_esperadas(t) : col \notin cols[t]}

Posicion(t) == CHOOSE i \in 1..Len(Tablas) : Tablas[i] = t

\* the load raised the missing-columns error for table t
FallaPorTabla(t) == excepcion.tipo = "ValueError" /\ excepcion.tabla = t

\* nothing after the load has run: no integrity check, cleaning, integration
\* or metric computation
NadaTrasLaCarga ==
    /\ \A i \in 1..Len(etapas) : etapas[i][1] = "carga"
    /\ ri.n = 0
    /\ df = DfVacio
    /\ ~metricas.calculada
    /\ pc \in {"excepcion", "error"}

\* C1 as stated: once the files are read, the load fails for a table if and
\* only if that table lacks a required column, the error names exactly the
\* absent required columns of the table, and nothing runs after the failure
C1_Original ==
    (pc # "inicio" /\ falla.etapa # "lectura") =>
        /\ \A t \in SeqToSet(Tablas) : FallaPorTabla(t) <=> AusentesRequeridas(t) # {}
        /\ \A t \in SeqToSet(Tablas) :
              FallaPorTabla(t) =>
                  excepcion.faltantes = AusentesRequeridas(t) /\ NadaTrasLaCarga

\* C1 amended: once the files are read, the load fails for a table if and
\* only if it is the first table, in the order productos, clientes, ventas,
\* detalle, that lacks a required column; the error names exactly the absent
\* required columns of that table, and nothing runs after the failure
C1_Amended ==
    (pc # "inicio" /\ falla.etapa # "lectura") =>
        /\ \A t \in SeqToSet(Tablas) :
              FallaPorTabla(t) <=>
                  /\ AusentesRequeridas(t) # {}
                  /\ \A u \in SeqToSet(Tablas) :
                        Posicion(u) < Posicion(t) => AusentesRequeridas(u) = {}
        /\ \A t \in SeqToSet(Tablas) :
              FallaPorTabla(t) =>
                  excepcion.faltantes = AusentesRequeridas(t) /\ NadaTrasLaCarga

\* a run that ended with the error for a table lacking two required columns
C1_Witness ==
    /\ pc = "error"
    /\ FallaPorTabla("ventas")
    /\ Cardinality(excepcion.faltantes) = 2

\* positions of a stage mark in etapas
Indices(etapa, m) == {i \in 1..Len(etapas) : etapas[i] = Marca(etapa, m)}

Terminado == pc \in {"fin", "error"}

\* the integrity check has run and reported the tables as not consistent
IntegridadNoOk == ri.n >= 1 /\ ~ri.ok

\* a sale line without its product name
LineaSinNombre(d) == <<d.id_venta, d.id_producto, d.cantidad, d.importe>>

\* C2: the referential-integrity check is advisory.  When it reports the
\* tables as not fully consistent the run is not aborted: cargar_datasets
\* has returned the four tables, a failure can only come from a stage that
\* itself raised, the run is at a position from which it goes on or has ended,
\* and a run that ends successfully has gone
\* through cleaning and then through the metrics
C2_Advisory ==
    IntegridadNoOk =>
        /\ "ri_warning" \in SeqToSet(log)
        /\ pc = "cargado" =>
              /\ df.productos = archivos.productos
              /\ df.clientes = archivos.clientes
              /\ df.ventas = archivos.ventas
              /\ {LineaSinNombre(df.detalle[i]) : i \in 1..Len(df.detalle)}
                    = {LineaSinNombre(archivos.detalle[i]) : i \in 1..Len(archivos.detalle)}
        /\ pc \in {"excepcion", "error"} =>
              /\ excepcion.origen \in {"limpieza", "metricas", "export"}
              /\ falla.etapa = excepcion.origen
        /\ pc \in {"cargado", "verificado", "limpio", "medido", "exportado",
                  "excepcion", "fin", "error"}
        /\ pc = "fin" =>
              /\ metricas.calculada
              /\ \E i \in Indices("limpieza", "fin"), j \in Indices("metricas", "fin") :
                    /\ i < j
                    /\ \A k \in Indices("integridad", "fin") : k < i

\* a run with an orphan sale line that ended successfully with its metrics
C2_Witness ==
    /\ pc = "fin"
    /\ IntegridadNoOk
    /\ ri.stats.detalle_sin_producto > 0
    /\ metricas.calculada
    /\ Len(metricas.df_completo) > 0

\* the order of the stages
RangoEtapa(e) ==
    CASE e = "carga"       -> 1
      [] e = "integridad"  -> 2
      [] e = "limpieza"    -> 3
      [] e = "integracion" -> 4
      [] e = "metricas"    -> 5
      [] e = "export"      -> 6

\* C3: the stages start in the order load, integrity check, cleaning,
\* integration, metrics, export, none skipped before a later one starts;
\* every stage that starts ends (or fails) before the next one starts, so
\* no two stages overlap; and no stage starts after a stage has failed
C3_StageOrder ==
    /\ \A i \in 1..Len(etapas) :
          /\ (i % 2 = 1) => etapas[i][2] = "inicio"
          /\ (i % 2 = 0) => /\ etapas[i][2] \in {"fin", "fallo"}
                            /\ etapas[i][1] = etapas[i - 1][1]
          /\ etapas[i][2] = "fallo" => i = Len(etapas)
    /\ Len(etapas) > 0 => etapas[1][1] = "carga"
    /\ \A i \in 1..Len(etapas) :
          (i % 2 = 1 /\ i > 2) =>
              /\ RangoEtapa(etapas[i][1]) >= RangoEtapa(etapas[i - 2][1])
              /\ RangoEtapa(etapas[i][1]) <= RangoEtapa(etapas[i - 2][1]) + 1
    /\ pc # "inicio" => Len(etapas) > 0
    /\ (pc = "fin" /\ ~fastmode) => etapas[Len(etapas)] = Marca("export", "fin")
    /\ (pc = "fin" /\ fastmode) => etapas[Len(etapas)] = Marca("metricas", "fin")
    /\ pc \in {"excepcion", "error"} => etapas[Len(etapas)][2] = "fallo"

\* a full run that went through every stage, export included
C3_Witness ==
    /\ pc = "fin"
    /\ ~fastmode
    /\ Len(etapas) = 14
    /\ Indices("limpieza", "fin") # {}

\* revenue of a product / of a customer in the fact table
IngresoProducto(k) ==
    SumSeq(Importes(SelectSeq(metricas.df_completo, LAMBDA f : ClaveProducto(f) = k)))

IngresoCliente(k) ==
    SumSeq(Importes(SelectSeq(metricas.df_completo, LAMBDA f : ClaveCliente(f) = k)))

ClavesProducto ==
    {ClaveProducto(metricas.df_completo[i]) : i \in 1..Len(metricas.df_completo)}

ClavesCliente ==
    {ClaveCliente(metricas.df_completo[i]) : i \in 1..Len(metricas.df_completo)}

Clase(r, c) == {i \in 1..Len(r) : r[i].clasificacion = c}

\* the classification r is ordered by revenue descending and its labels
\* follow the cumulative share: A up to 80%, B up to 95%, C beyond
OrdenYEtiquetasABC(r) ==
    LET total   == SumSeq(Importes(r))
        acum(i) == SumSeq(Importes(SubSeq(r, 1, i)))
    IN  /\ \A i \in 1..Len(r) : \A j \in 1..Len(r) :
              i < j => /\ r[i].importe >= r[j].importe
                       /\ r[i].clave # r[j].clave
        /\ \A i \in 1..Len(r) :
              r[i].clasificacion =
                  IF 100 * acum(i) <= 80 * total THEN "A"
                  ELSE IF 100 * acum(i) <= 95 * total THEN "B" ELSE "C"
        /\ \A i \in 1..Len(r) : \A j \in 1..Len(r) :
              i < j => /\ r[j].clasificacion = "A" => r[i].clasificacion = "A"
                       /\ r[j].clasificacion = "B" => r[i].clasificacion # "C"
        /\ \A i \in Clase(r, "B") :
              (\A j \in Clase(r, "B") : i <= j) => 100 * acum(i - 1) <= 80 * total

\* C4: the ABC classifications of the products and of the customers hold the
\* entities of the fact table with their revenue totals, ordered by revenue
\* descending and labelled by cumulative revenue share ("A" up to 80%, "B" up
\* to 95%, "C" beyond); no A follows a B or C, no B follows a C, the
\* cumulative share before the first B is at most 80%, and revenue is
\* non-increasing within each class
C4_ABC ==
    metricas.calculada =>
        /\ OrdenYEtiquetasABC(metricas.abc_productos)
        /\ OrdenYEtiquetasABC(metricas.abc_clientes)
        /\ {r.clave : r \in SeqToSet(metricas.abc_productos)}
              = {k \in ClavesProducto : k[2] # NULL}
        /\ {r.clave : r \in SeqToSet(metricas.abc_clientes)} = ClavesCliente
        /\ \A r \in SeqToSet(metricas.abc_productos) : r.importe = IngresoProducto(r.clave)
        /\ \A r \in SeqToSet(metricas.abc_clientes) : r.importe = IngresoCliente(r.clave)

\* five products with revenues 16, 1, 1, 1, 1: the first reaches exactly 80%
\* and is A, the fourth reaches exactly 95% and is B, the last is C
C4_Witness ==
    /\ metricas.calculada
    /\ Len(metricas.abc_productos) = 5
    /\ metricas.abc_productos[1].importe = 16
    /\ metricas.abc_productos[1].clasificacion = "A"
    /\ metricas.abc_productos[2].clasificacion = "B"
    /\ metricas.abc_productos[4].clasificacion = "B"
    /\ metricas.abc_productos[5].clasificacion = "C"

\* a classification of exactly one entity with positive revenue labels it A
UnicaEntidadEsA(r) ==
    (Len(r) = 1 /\ r[1].importe > 0) => r[1].clasificacion = "A"

\* C5: the ABC classification of exactly one entity with positive revenue
\* labels that entity "A"; the classification of an empty input is empty
C5_SingleEntity ==
    metricas.calculada =>
        /\ UnicaEntidadEsA(metricas.abc_productos)
        /\ UnicaEntidadEsA(metricas.abc_clientes)
        /\ metricas.df_completo = <<>> =>
              metricas.abc_productos = <<>> /\ metricas.abc_clientes = <<>>

\* entity a comes before entity b in the ranking: larger total first, equal
\* totals by product identifier ascending
AntesEnRanking(a, b) ==
    \/ a.importe > b.importe
    \/ a.importe = b.importe /\ a.clave[1] <= b.clave[1]

\* C6: the Top-5 holds the first min(5, n) of the n products of the fact
\* table (the groups of product identifier and name) in the order "summed
\* amount descending, ties by product identifier ascending": its length is
\* min(5, n), every entry carries the product's summed amount, it is sorted,
\* and every product outside it comes after every product inside it
C6_Top5 ==
    metricas.calculada =>
        LET top == metricas.top5_productos
            n   == Cardinality(ClavesProducto)
        IN  /\ Len(top) = IF n < 5 THEN n ELSE 5
            /\ \A i \in 1..Len(top) :
                  /\ top[i].clave \in ClavesProducto
                  /\ top[i].importe = IngresoProducto(top[i].clave)
            /\ \A i \in 1..Len(top) : \A j \in 1..Len(top) :
                  i < j => top[i].clave # top[j].clave /\ AntesEnRanking(top[i], top[j])
            /\ \A k \in ClavesProducto \ {top[i].clave : i \in 1..Len(top)} :
                  \A i \in 1..Len(top) :
                      AntesEnRanking(top[i], [clave |-> k, importe |-> IngresoProducto(k)])

\* six products with equal totals: the five smaller identifiers are ranked,
\* the sixth is left out
C6_Witness ==
    /\ metricas.calculada
    /\ Cardinality(ClavesProducto) = 6
    /\ Len(metricas.top5_productos) = 5
    /\ metricas.top5_productos[1].importe = metricas.top5_productos[5].importe
    /\ IngresoProducto(<<6, Nombres[6]>>) = metricas.top5_productos[5].importe

GranTotal == SumSeq(Importes(metricas.df_completo))

\* the percentages num/den of the distribution add up to 100
SumaCien(pct) ==
    /\ pct # <<>>
    /\ \A i \in 1..Len(pct) : pct[i].den = pct[1].den /\ pct[i].den # 0
    /\ SumSeq([i \in 1..Len(pct) |-> pct[i].num]) = 100 * pct[1].den

\* every payment method of the fact table has its share: summed amount
\* divided by the grand total, times 100
CuotasPorMedio(pct) ==
    /\ {pct[i].medio : i \in 1..Len(pct)}
          = {metricas.df_completo[i].medio_pago : i \in 1..Len(metricas.df_completo)}
    /\ \A i \in 1..Len(pct) : \A j \in 1..Len(pct) : i # j => pct[i].medio # pct[j].medio
    /\ \A i \in 1..Len(pct) :
          /\ pct[i].den = GranTotal
          /\ pct[i].num = 100 * SumSeq(Importes(SelectSeq(metricas.df_completo,
                                  LAMBDA f : f.medio_pago = pct[i].medio)))

\* C7 as stated: the percentages add up to 100 for every non-empty fact
\* table; the distribution is empty for an empty fact table and whenever the
\* grand total is zero
C7_Original ==
    metricas.calculada =>
        /\ metricas.df_completo # <<>> => SumaCien(metricas.medios_pago)
        /\ (metricas.df_completo = <<>> \/ GranTotal = 0) => metricas.medios_pago = <<>>

\* C7 amended: the percentages (each payment method's summed amount divided
\* by the grand total, times 100) add up to 100 for every fact table whose
\* grand total is not zero; the distribution is empty, and nothing is divided
\* by zero, for an empty fact table and whenever the grand total is zero
C7_Amended ==
    metricas.calculada =>
        /\ GranTotal # 0 =>
              SumaCien(metricas.medios_pago) /\ CuotasPorMedio(metricas.medios_pago)
        /\ (metricas.df_completo = <<>> \/ GranTotal = 0) => metricas.medios_pago = <<>>
        /\ \A i \in 1..Len(metricas.medios_pago) : metricas.medios_pago[i].den # 0

\* two payment methods sharing a non-zero total
C7_Witness ==
    /\ metricas.calculada
    /\ Len(metricas.medios_pago) = 2
    /\ metricas.medios_pago[1].num > 0
    /\ metricas.medios_pago[2].num > 0
    /\ metricas.medios_pago[1].num # metricas.medios_pago[2].num

\* C8: every row of the fact table has its sale in the cleaned Sales table
\* and its product in the cleaned Products table
C8_Closure ==
    metricas.calculada =>
        \A i \in 1..Len(metricas.df_completo) :
            /\ metricas.df_completo[i].id_venta \in Ids(df.ventas, "id_venta")
            /\ metricas.df_completo[i].id_producto \in Ids(df.productos, "id_producto")

\* C9: the name enrichment at load time neither adds nor removes sale lines,
\* and the fact table has at most as many rows as the input has sale lines
C9_RowCount ==
    /\ pc = "cargado" => Len(df.detalle) = Len(archivos.detalle)
    /\ metricas.calculada => Len(metricas.df_completo) <= Len(archivos.detalle)

\* C10: every product total of the Top-5 ranking is the total the ABC
\* classification of the products received for that product, and the product
\* totals and the customer totals fed to ABC both add up to the grand total
C10_Consistency ==
    metricas.calculada =>
        /\ \A i \in 1..Len(metricas.top5_productos) :
              \E j \in 1..Len(metricas.abc_productos) :
                  /\ metricas.abc_productos[j].clave = metricas.top5_productos[i].clave
                  /\ metricas.abc_productos[j].importe = metricas.top5_productos[i].importe
        /\ SumSeq(Importes(metricas.abc_productos)) = GranTotal
        /\ SumSeq(Importes(metricas.abc_clientes)) = GranTotal

\* the stage of the run that failed
EtapaFallida == etapas[Len(etapas)][1]

\* the names that identify a stage in an error record; the integrity check
\* that runs inside cargar_datasets also counts as part of the ingestion
NombresEtapa(e) ==
    CASE e = "carga"       -> {"ingesta"}
      [] e = "integridad"  -> {"integridad", "ingesta"}
      [] e = "limpieza"    -> {"limpieza"}
      [] e = "integracion" -> {"integracion", "metricas"}
      [] e = "metricas"    -> {"metricas"}
      [] e = "export"      -> {"exportación"}

\* C11: whenever a stage of a run fails (load/validation, integrity check,
\* cleaning, integration/metrics, export), an error record carrying the name
\* of the failing stage and the original error is written, the run is
\* aborted (it is not logged as successful and returns no metrics bundle) and
\* the error is propagated to the caller
C11_ErrorRecord ==
    pc = "error" =>
        /\ etapas[Len(etapas)][2] = "fallo"
        /\ excepcion # SinExcepcion
        /\ \E i \in 1..Len(errores) :
              /\ errores[i].etapa \in NombresEtapa(EtapaFallida)
              /\ errores[i].error = excepcion
        /\ "pipeline_success" \notin SeqToSet(log)
        /\ \A i \in 1..Len(registros) : registros[i].status = "failed"

\* the export stage of the run failed
ExportFallido == Indices("export", "fallo") # {}

\* C12: exportar_resultados writes out_top5.csv, out_mediopago.csv,
\* out_abc_productos.csv, out_abc_clientes.csv and resumen_mensual.md in that
\* order; when the writing of the k-th output fails, the outputs written
\* before it stay in place (also after the handlers have run), no later
\* output is written, and the error is propagated
C12_NoRollback ==
    LET orden == <<"out_top5.csv", "out_mediopago.csv", "out_abc_productos.csv",
                   "out_abc_clientes.csv", "resumen_mensual.md">>
    IN  /\ Len(exportados) <= 5
        /\ \A i \in 1..Len(exportados) : exportados[i] = orden[i]
        /\ Indices("export", "fin") # {} => Len(exportados) = 5
        /\ ExportFallido =>
              /\ Len(exportados) = falla.k - 1
              /\ pc \in {"excepcion", "error"}
              /\ excepcion = ErrorInesperado("export")
              /\ "pipeline_success" \notin SeqToSet(log)

\* the writing of the third output failed: the first two are in place after
\* the error has been re-raised
C12_Witness ==
    /\ pc = "error"
    /\ ExportFallido
    /\ falla.k = 3
    /\ exportados = <<"out_top5.csv", "out_mediopago.csv">>

NombresDeEtapas == {"carga", "integridad", "limpieza", "integracion", "metricas", "export"}

\* C13: within one execution of ejecutar_pipeline every stage (load and
\* schema validation, integrity check, cleaning, integration, metrics,
\* export) is executed at most once, and a stage that failed is never
\* executed again in that run
C13_NoRetry ==
    /\ \A e \in NombresDeEtapas : Cardinality(Indices(e, "inicio")) <= 1
    /\ \A e \in NombresDeEtapas :
          \A i \in Indices(e, "fallo") :
              \A j \in Indices(e, "inicio") : j < i
    /\ ri.n <= 1

\* the optional columns that the file of table t lacks
AusentesOpcionales(t) == {col \in columnas_opcionales(t) : col \notin cols[t]}

\* no table lacks a required column
SinAusentesRequeridas == \A t \in SeqToSet(Tablas) : AusentesRequeridas(t) = {}

\* C14: a missing optional column (nombre_producto of the sale lines) never
\* makes the load fail.  The missing-columns error of a table never names an
\* optional column of that table; the absence
\* produces one warning for its table, listing exactly the optional columns
\* the table lacks; and when no required column is absent the load goes on:
\* the tables are returned, the integrity check runs, and a failure can only
\* come from a stage that itself raised
C14_OptionalWarning ==
    (pc # "inicio" /\ falla.etapa # "lectura") =>
        /\ \A t \in SeqToSet(Tablas) :
              FallaPorTabla(t) => excepcion.faltantes \cap columnas_opcionales(t) = {}
        /\ \A i \in 1..Len(avisos) :
              /\ avisos[i].faltantes # {}
              /\ avisos[i].faltantes = AusentesOpcionales(avisos[i].tabla)
              /\ \A j \in 1..Len(avisos) : avisos[j].tabla = avisos[i].tabla => j = i
        /\ Len(avisos) = Len(SelectSeq(log, LAMBDA ev : ev = "optional_column_missing"))
        /\ SinAusentesRequeridas =>
              /\ \A t \in SeqToSet(Tablas) :
                    AusentesOpcionales(t) # {} => \E i \in 1..Len(avisos) : avisos[i].tabla = t
              /\ Indices("carga", "fin") # {}
              /\ Indices("integridad", "inicio") # {}
              /\ "load_ok" \in SeqToSet(log)
              /\ excepcion.tipo # "ValueError"
              /\ pc \in {"excepcion", "error"} => excepcion.origen = falla.etapa
              /\ falla = SinFalla => pc \notin {"excepcion", "error"}
              /\ pc = "cargado" =>
                    /\ df.productos = archivos.productos
                    /\ df.clientes = archivos.clientes
                    /\ df.ventas = archivos.ventas
                    /\ Len(df.detalle) >= Len(archivos.detalle)

\* the sale lines come without nombre_producto: one warning naming exactly
\* that column, and the run ends successfully with its metrics
C14_Witness ==
    /\ pc = "fin"
    /\ "nombre_producto" \notin cols["detalle"]
    /\ avisos = <<[tabla |-> "detalle", faltantes |-> {"nombre_producto"}]>>
    /\ metricas.calculada
    /\ Len(metricas.df_completo) > 0

\* C15: in fastmode the export stage is never executed (no export mark, no
\* output or report file written) while load, cleaning and metrics still
\* run; in full mode the export stage runs exactly once in a run that gets
\* past the metrics, never twice, and only after the metric computation has
\* succeeded
C15_RunModes ==
    /\ fastmode =>
          /\ exportados = <<>>
          /\ \A i \in 1..Len(etapas) : etapas[i][1] # "export"
          /\ "export_inicio" \notin SeqToSet(log)
          /\ pc = "fin" =>
                /\ Indices("carga", "fin") # {}
                /\ Indices("limpieza", "fin") # {}
                /\ Indices("metricas", "fin") # {}
                /\ metricas.calculada
    /\ ~fastmode =>
          /\ Cardinality(Indices("export", "inicio")) <= 1
          /\ \A i \in Indices("export", "inicio") :
                /\ metricas.calculada
                /\ \E j \in Indices("metricas", "fin") : j < i
          /\ exportados # <<>> => Indices("export", "inicio") # {}
          /\ pc \in {"exportado", "fin"} => Cardinality(Indices("export", "inicio")) = 1
          /\ (pc \in {"excepcion", "error"} /\ falla.etapa # "export") =>
                Indices("export", "inicio") = {}

\* a fastmode run that ended successfully with its metrics and no output
C15_Witness ==
    /\ fastmode
    /\ pc = "fin"
    /\ metricas.calculada
    /\ Len(metricas.top5_productos) > 0
    /\ exportados = <<>>
    /\ registros = Registros("success")

\* the effects of options 2, 3 and 5 that use the results of a run
EfectosConResultados ==
    {"muestra_metricas", "muestra_registros", "reporte_escrito", "reporte_error"}

\* C16: in a menu session options 2 (metrics), 3 (recent records) and 5
\* (report) operate on pipeline results only if an earlier option 1 of the
\* session completed successfully, and then on the stored results of such a
\* run; otherwise they only print the "run the pipeline first" warning:
\* nothing is displayed and no report is written
C16_MenuGating ==
    menu.pos # "inactivo" =>
        /\ menu.opcion \in {"2", "3", "5"} =>
              /\ menu.efecto \in EfectosConResultados \cup {"aviso"}
              /\ menu.efecto = "aviso" <=> ~menu.exito
        /\ ~menu.exito =>
              /\ menu.efecto \notin EfectosConResultados
              /\ menu.reporte = Ninguno
              /\ menu.metricas = Ninguno
              /\ menu.df_ventas = Ninguno
              /\ menu.df_detalle = Ninguno
        /\ menu.exito =>
              /\ menu.metricas.hay /\ menu.metricas.valor.calculada
              /\ menu.df_ventas.hay
              /\ menu.df_detalle.hay
        /\ menu.reporte.hay => menu.reporte.valor.calculada

\* option 5 after a successful run: the report of the stored metrics is
\* written
C16_Witness ==
    /\ menu.exito
    /\ menu.opcion = "5"
    /\ menu.efecto = "reporte_escrito"
    /\ menu.reporte = menu.metricas
    /\ Len(menu.reporte.valor.top5_productos) > 0

\* the results stored by the menu session
Guardado(m) == <<m.metricas, m.df_ventas, m.df_detalle>>

ErrorDeLaEtapa ==
    IF falla.etapa = "lectura" THEN ErrorInesperado("lectura")
    ELSE IF ~SinAusentesRequeridas
         THEN LET t == CHOOSE u \in SeqToSet(Tablas) : FallaPorTabla(u)
              IN  ErrorColumnas(t, AusentesRequeridas(t))
         ELSE ErrorInesperado(falla.etapa)

\* C18: when a stage of ejecutar_pipeline fails, the error re-raised to the
\* caller is the error of that stage, also when writing the failed-run record
\* to the metrics log or to the performance log itself fails: the step of
\* the handler keeps the error whatever number of records it managed to
\* write, and the run ends in error with it
C18_OriginalError ==
    [][pc = "excepcion" =>
          /\ pc' = "error"
          /\ excepcion' = excepcion
          /\ excepcion' = ErrorDeLaEtapa
          /\ excepcion'.origen # "registro"
          /\ Len(registros') \in {Len(registros), Len(registros) + 1, Len(registros) + 2}
          /\ errores'[Len(errores')] = [etapa |-> "pipeline", error |-> excepcion]]_vars

\* the cleaning failed and then registrar_performance failed after the
\* metrics record was written: the error re-raised is that of the cleaning
C18_Witness ==
    /\ pc = "error"
    /\ registros = <<[log |-> "metrics", status |-> "failed"]>>
    /\ excepcion = ErrorInesperado("limpieza")

====
